---- MODULE Spec2Model ----
(***************************************************************************)
(* Model of the cognitive-complexity engine (cognitive-complexity.ts):     *)
(* calcFileCost / calcElemCost / NodeCost and the per-construct handlers,  *)
(* run as an explicit call-stack machine over concrete syntax trees of the *)
(* shape the TypeScript parser's getChildren() produces.                   *)
(***************************************************************************)
EXTENDS Integers, Sequences, FiniteSets, TLC

VARIABLES prog, stack, status, ret, fileScore

vars == <<prog, stack, status, ret, fileScore>>

\* Largest number of enclosing wrapper constructs around the innermost construct.
MaxWrap == 1

(***************************************************************************)
(* Concrete syntax trees: a node is [kind, children]; a node is referred   *)
(* to by its path (child indices from the source file).                    *)
(***************************************************************************)
Tok(k) == [kind |-> k, children |-> <<>>]
Nd(k, ch) == [kind |-> k, children |-> ch]

Ident == Tok("Identifier")
ExprStmt == Nd("ExpressionStatement", <<Ident, Tok("SemicolonToken")>>)
Block(s) == Nd("Block", <<Tok("OpenBraceToken"), Nd("SyntaxList", s), Tok("CloseBraceToken")>>)
Params == Nd("SyntaxList", <<>>)
Assign(e) == Nd("ExpressionStatement",
                <<Nd("BinaryExpression", <<Ident, Tok("EqualsToken"), e>>), Tok("SemicolonToken")>>)

\* The constructs of the input programs; s is the statement placed in the body.
Leaves == {"Ternary", "Break", "BreakLabel", "Continue", "ContinueLabel"}
Bodied == {"IfElse", "If", "While", "Do", "For", "ForIn", "ForOf", "Switch",
           "Arrow", "FunctionDeclaration", "FunctionExpression", "Method",
           "TryCatch", "Block"}
Constructs == Leaves \cup Bodied
Wrappers == {"IfElse", "FunctionDeclaration"}

Construct(k, s) ==
  CASE k = "IfElse" ->
         Nd("IfStatement", <<Tok("IfKeyword"), Tok("OpenParenToken"), Ident, Tok("CloseParenToken"),
                             Block(<<s>>), Tok("ElseKeyword"), Block(<<ExprStmt>>)>>)
    [] k = "If" ->
         Nd("IfStatement", <<Tok("IfKeyword"), Tok("OpenParenToken"), Ident, Tok("CloseParenToken"),
                             Block(<<s>>)>>)
    [] k = "While" ->
         Nd("WhileStatement", <<Tok("WhileKeyword"), Tok("OpenParenToken"), Ident,
                                Tok("CloseParenToken"), Block(<<s>>)>>)
    [] k = "Do" ->
         Nd("DoStatement", <<Tok("DoKeyword"), Block(<<s>>), Tok("WhileKeyword"),
                             Tok("OpenParenToken"), Ident, Tok("CloseParenToken"),
                             Tok("SemicolonToken")>>)
    [] k = "For" ->
         Nd("ForStatement", <<Tok("ForKeyword"), Tok("OpenParenToken"), Ident, Tok("SemicolonToken"),
                              Ident, Tok("SemicolonToken"), Ident, Tok("CloseParenToken"),
                              Block(<<s>>)>>)
    [] k = "ForIn" ->
         Nd("ForInStatement", <<Tok("ForKeyword"), Tok("OpenParenToken"), Ident, Tok("InKeyword"),
                                Ident, Tok("CloseParenToken"), Block(<<s>>)>>)
    [] k = "ForOf" ->
         Nd("ForOfStatement", <<Tok("ForKeyword"), Tok("OpenParenToken"), Ident, Tok("OfKeyword"),
                                Ident, Tok("CloseParenToken"), Block(<<s>>)>>)
    [] k = "Switch" ->
         Nd("SwitchStatement", <<Tok("SwitchKeyword"), Tok("OpenParenToken"), Ident,
                                 Tok("CloseParenToken"),
                                 Nd("CaseBlock", <<Tok("OpenBraceToken"),
                                     Nd("SyntaxList", <<Nd("CaseClause",
                                         <<Tok("CaseKeyword"), Ident, Tok("ColonToken"),
                                           Nd("SyntaxList", <<s>>)>>)>>),
                                     Tok("CloseBraceToken")>>)>>)
    [] k = "Arrow" ->
         Assign(Nd("ArrowFunction", <<Tok("OpenParenToken"), Params, Tok("CloseParenToken"),
                                      Tok("EqualsGreaterThanToken"), Block(<<s>>)>>))
    [] k = "FunctionDeclaration" ->
         Nd("FunctionDeclaration", <<Tok("FunctionKeyword"), Ident, Tok("OpenParenToken"), Params,
                                     Tok("CloseParenToken"), Block(<<s>>)>>)
    [] k = "FunctionExpression" ->
         Assign(Nd("FunctionExpression", <<Tok("FunctionKeyword"), Tok("OpenParenToken"), Params,
                                           Tok("CloseParenToken"), Block(<<s>>)>>))
    [] k = "Method" ->
         Nd("ClassDeclaration", <<Tok("ClassKeyword"), Ident, Tok("OpenBraceToken"),
              Nd("SyntaxList", <<Nd("MethodDeclaration",
                  <<Ident, Tok("OpenParenToken"), Params, Tok("CloseParenToken"), Block(<<s>>)>>)>>),
              Tok("CloseBraceToken")>>)
    [] k = "TryCatch" ->
         Nd("TryStatement", <<Tok("TryKeyword"), Block(<<ExprStmt>>),
              Nd("CatchClause", <<Tok("CatchKeyword"), Tok("OpenParenToken"),
                                  Nd("VariableDeclaration", <<Ident>>), Tok("CloseParenToken"),
                                  Block(<<s>>)>>)>>)
    [] k = "Block" -> Block(<<s>>)
    [] k = "Ternary" ->
         Nd("ExpressionStatement",
            <<Nd("ConditionalExpression", <<Ident, Tok("QuestionToken"), Ident, Tok("ColonToken"),
                                            Ident>>),
              Tok("SemicolonToken")>>)
    [] k = "Break" -> Nd("BreakStatement", <<Tok("BreakKeyword"), Tok("SemicolonToken")>>)
    [] k = "BreakLabel" ->
         Nd("BreakStatement", <<Tok("BreakKeyword"), Ident, Tok("SemicolonToken")>>)
    [] k = "Continue" -> Nd("ContinueStatement", <<Tok("ContinueKeyword"), Tok("SemicolonToken")>>)
    [] k = "ContinueLabel" ->
         Nd("ContinueStatement", <<Tok("ContinueKeyword"), Ident, Tok("SemicolonToken")>>)

RECURSIVE Stmt(_)
Stmt(chain) == IF chain = <<>> THEN ExprStmt ELSE Construct(Head(chain), Stmt(Tail(chain)))

SourceFile(chain) ==
  Nd("SourceFile", <<Nd("SyntaxList", <<Stmt(chain)>>), Tok("EndOfFileToken")>>)

RECURSIVE WrapChains(_)
WrapChains(n) ==
  IF n = 0 THEN {<<>>}
  ELSE LET shorter == WrapChains(n - 1) IN
       shorter \cup {<<w>> \o c : w \in Wrappers, c \in {d \in shorter : Len(d) = n - 1}}

Chains == {w \o <<k>> : w \in WrapChains(MaxWrap), k \in Constructs}

\* `if (a) { b; } else { c; }` as the only statement of the file
ScenarioA == <<"IfElse">>

----
(***************************************************************************)
(* Nodes are numbered in document order, the source file being node 1; a   *)
(* tree is laid out as the sequence of its nodes, each with its kind, its  *)
(* children (getChildren()) and the node that encloses it.                 *)
(***************************************************************************)
RECURSIVE Size(_)
RECURSIVE SizeOfAll(_)
Size(tree) == 1 + SizeOfAll(tree.children)
SizeOfAll(trees) == IF trees = <<>> THEN 0 ELSE Size(Head(trees)) + SizeOfAll(Tail(trees))

RECURSIVE Layout(_, _, _)
RECURSIVE LayoutAll(_, _, _)
Layout(tree, id, encl) ==
  <<[kind |-> tree.kind,
     children |-> [i \in 1..Len(tree.children) |->
                     id + 1 + SizeOfAll(SubSeq(tree.children, 1, i - 1))],
     enclosing |-> encl]>>
  \o LayoutAll(tree.children, id + 1, id)
LayoutAll(trees, id, encl) ==
  IF trees = <<>> THEN <<>>
  ELSE Layout(Head(trees), id, encl) \o LayoutAll(Tail(trees), id + Size(Head(trees)), encl)

\* The input programs.  A program is named by its chain of constructs, outermost
\* first; Trees maps the name to the laid-out syntax tree of its source file.
Trees == [c \in Chains |-> Layout(SourceFile(c), 1, 0)]

Root == 1
NoNode == 0

NodeAt(t, n) == Trees[t][n]

KindOf(t, n) == NodeAt(t, n).kind

\* node.getChildren()
getChildren(t, n) == NodeAt(t, n).children

\* node.parent: the enclosing syntax node; the SyntaxList nodes that getChildren()
\* synthesizes are not on the parent chain.  NoNode stands for undefined.
RECURSIVE parentOf(_, _)
parentOf(t, n) ==
  LET e == NodeAt(t, n).enclosing IN
  IF e = NoNode THEN NoNode
  ELSE IF KindOf(t, e) = "SyntaxList" THEN parentOf(t, e)
  ELSE e

isBlock(t, p) == KindOf(t, p) = "Block"
isSyntaxList(t, p) == KindOf(t, p) = "SyntaxList"
isForLikeStatement(t, p) == KindOf(t, p) \in {"ForInStatement", "ForOfStatement", "ForStatement"}

isBreakOrContinueToLabel(t, p) ==
  /\ KindOf(t, p) \in {"BreakStatement", "ContinueStatement"}
  /\ \E i \in 1..Len(getChildren(t, p)) : KindOf(t, getChildren(t, p)[i]) = "Identifier"

RECURSIVE highestNonBlockAncestor(_, _)
highestNonBlockAncestor(t, a) ==
  IF isBlock(t, a) THEN highestNonBlockAncestor(t, parentOf(t, a)) ELSE a

RECURSIVE isTopLevel(_, _)
isTopLevel(t, n) ==
  LET parent == parentOf(t, n) IN
  IF parent = NoNode THEN TRUE
  ELSE IF KindOf(t, parent) = "SourceFile" THEN TRUE
  ELSE LET h == highestNonBlockAncestor(t, parent) IN
       IF h = parent THEN FALSE ELSE isTopLevel(t, h)

----
(***************************************************************************)
(* A handler's calculate() is the sequence of include(child, depth) calls  *)
(* it makes, in order, and whether it ends by throwing.  The calls depend  *)
(* only on the node's children, so they are computed when the handler is   *)
(* constructed and then performed one by one by the Include action.        *)
(***************************************************************************)
Call(n, d) == [node |-> n, depth |-> d]
Ok(calls) == [incl |-> calls, err |-> FALSE]
Thrown(calls) == [incl |-> calls, err |-> TRUE]

\* includeAll(nodes, depth)
includeAll(nodes, depth) == [i \in 1..Len(nodes) |-> Call(nodes[i], depth)]

\* nextChild() of throwingIterator(children.values()) at position i: throws once exhausted
hasNext(ch, i) == i <= Len(ch)

Skip == [inc |-> FALSE, depth |-> 0]
Inc(d) == [inc |-> TRUE, depth |-> d]

\* a straight run of nextChild() calls, each either dropped or passed to include()
RECURSIVE consume(_, _, _, _)
consume(ch, plan, i, acc) ==
  IF i > Len(plan) THEN Ok(acc)
  ELSE IF ~hasNext(ch, i) THEN Thrown(acc)
  ELSE consume(ch, plan, i + 1,
               IF plan[i].inc THEN Append(acc, Call(ch[i], plan[i].depth)) ELSE acc)

\* this.topLevel as calculate() reads it: AbstractNodeCost's constructor runs
\* calculate() inside super(node, depth), before the parameter property is assigned.
thisTopLevel(param) == "undefined"

truthy(v) == v = "true"

ArrowFunctionCost(t, n, depth, topLevel) ==
  consume(getChildren(t, n),
          <<Skip, Inc(depth), Skip, Skip, Inc(IF truthy(topLevel) THEN depth ELSE depth + 1)>>,
          1, <<>>)

\* Array.prototype.push(...items)
push(arr, items) == arr \o items

RECURSIVE conditionalLoop(_, _, _, _, _, _)
conditionalLoop(t, ch, depth, i, childNodesToAggregate, acc) ==
  IF i > Len(ch) THEN Ok(acc \o includeAll(childNodesToAggregate, depth))
  ELSE IF KindOf(t, ch[i]) = "QuestionToken"
       THEN conditionalLoop(t, ch, depth, i + 1, <<>>,
                            acc \o includeAll(childNodesToAggregate, depth))
  ELSE IF KindOf(t, ch[i]) = "ColonToken"
       THEN conditionalLoop(t, ch, depth, i + 1, <<>>,
                            acc \o includeAll(childNodesToAggregate, depth + 1))
  ELSE conditionalLoop(t, ch, depth, i + 1, push(childNodesToAggregate, <<>>), acc)

ConditionalExpressionCost(t, n, depth) ==
  conditionalLoop(t, getChildren(t, n), depth, 1, <<>>, <<>>)

DoStatementCost(t, n, depth) ==
  consume(getChildren(t, n), <<Skip, Inc(depth + 1), Skip, Skip, Inc(depth)>>, 1, <<>>)

RECURSIVE ifLoop(_, _, _, _, _)
ifLoop(t, ch, depth, i, acc) ==
  IF ~hasNext(ch, i) THEN Thrown(acc)
  ELSE IF KindOf(t, ch[i]) = "IfKeyword" THEN
         IF ~hasNext(ch, i + 2) THEN Thrown(acc)
         ELSE ifLoop(t, ch, depth, i + 3, Append(acc, Call(ch[i + 2], depth)))
  ELSE IF KindOf(t, ch[i]) = "CloseParenToken" THEN
         IF ~hasNext(ch, i + 1) THEN Thrown(acc)
         ELSE ifLoop(t, ch, depth, i + 2, Append(acc, Call(ch[i + 1], depth + 1)))
  ELSE IF KindOf(t, ch[i]) = "ElseKeyword" THEN
         IF ~hasNext(ch, i + 1) THEN Thrown(acc)
         ELSE Ok(Append(acc, Call(ch[i + 1], depth + 1)))
  ELSE Thrown(acc)

IfStatementCost(t, n, depth) == ifLoop(t, getChildren(t, n), depth, 1, <<>>)

FileCost(t, n, depth) == Ok(includeAll(getChildren(t, n), depth))

RECURSIVE forLoop(_, _, _, _, _)
forLoop(t, ch, depth, i, acc) ==
  IF ~hasNext(ch, i) THEN Thrown(acc)
  ELSE IF KindOf(t, ch[i]) = "CloseParenToken" THEN
         IF ~hasNext(ch, i + 1) THEN Thrown(acc)
         ELSE Ok(Append(acc, Call(ch[i + 1], depth + 1)))
  ELSE forLoop(t, ch, depth, i + 1, Append(acc, Call(ch[i], depth)))

ForLikeStatementCost(t, n, depth) ==
  IF ~hasNext(getChildren(t, n), 2) THEN Thrown(<<>>)
  ELSE forLoop(t, getChildren(t, n), depth, 3, <<>>)

RECURSIVE functionDeclarationLoop(_, _, _, _, _)
functionDeclarationLoop(t, ch, depth, i, acc) ==
  IF ~hasNext(ch, i) THEN Thrown(acc)
  ELSE IF isSyntaxList(t, ch[i])
       THEN functionDeclarationLoop(t, ch, depth, i + 1, Append(acc, Call(ch[i], depth)))
  ELSE IF isBlock(t, ch[i]) THEN Ok(Append(acc, Call(ch[i], depth + 1)))
  ELSE functionDeclarationLoop(t, ch, depth, i + 1, acc)

FunctionDeclarationCost(t, n, depth, topLevel) ==
  functionDeclarationLoop(t, getChildren(t, n), depth, 1, <<>>)

\* children.slice(-1) and children.slice(0, -1)
sliceLast(ch) == IF Len(ch) = 0 THEN <<>> ELSE <<ch[Len(ch)]>>
sliceButLast(ch) == IF Len(ch) = 0 THEN <<>> ELSE SubSeq(ch, 1, Len(ch) - 1)

FunctionExpressionCost(t, n, depth, topLevel) ==
  LET children == getChildren(t, n)
      functionBody == sliceLast(children)
      rest == sliceButLast(children)
  IN  IF rest = <<>>
      THEN Thrown(includeAll(functionBody, depth))     \* include(undefined, ...)
      ELSE Ok(Append(includeAll(functionBody, depth), Call(rest[1], depth + 1)))

RECURSIVE methodDeclarationLoop(_, _, _, _, _, _)
methodDeclarationLoop(t, ch, depth, topLevel, i, acc) ==
  IF ~hasNext(ch, i) THEN Thrown(acc)
  ELSE IF isBlock(t, ch[i]) THEN
         IF ~hasNext(ch, i + 1) THEN Thrown(acc)
         ELSE Ok(Append(acc, Call(ch[i + 1], IF truthy(topLevel) THEN depth ELSE depth + 1)))
  ELSE methodDeclarationLoop(t, ch, depth, topLevel, i + 1, Append(acc, Call(ch[i], depth)))

MethodDeclarationCost(t, n, depth, topLevel) ==
  methodDeclarationLoop(t, getChildren(t, n), depth, topLevel, 1, <<>>)

SwitchStatementCost(t, n, depth) ==
  consume(getChildren(t, n), <<Skip, Skip, Inc(depth), Skip, Inc(depth + 1)>>, 1, <<>>)

\* One pass of the loop body: the `if (WhileKeyword)` statement, then the separate
\* `if (CloseParenToken) ... else throw` statement, both testing the same child.
WhileStatementCost(t, n, depth) ==
  LET ch == getChildren(t, n) IN
  IF ~hasNext(ch, 1) THEN Thrown(<<>>)
  ELSE IF KindOf(t, ch[1]) = "WhileKeyword" THEN
         IF ~hasNext(ch, 3) THEN Thrown(<<>>)
         ELSE Thrown(<<Call(ch[3], depth)>>)            \* child is not `)`: throw
  ELSE IF KindOf(t, ch[1]) = "CloseParenToken" THEN
         IF ~hasNext(ch, 2) THEN Thrown(<<>>)
         ELSE Ok(<<Call(ch[2], depth + 1)>>)
  ELSE Thrown(<<>>)

CatchClauseCost(t, n, depth) == Ok(includeAll(getChildren(t, n), depth + 1))

OtherNodeCost(t, n, depth) == Ok(includeAll(getChildren(t, n), depth))

\* NodeCost.calculate, before dispatch: inherent cost and nesting increment
inherentCost(t, n) ==
  IF \/ KindOf(t, n) \in {"CatchClause", "ConditionalExpression", "ForInStatement",
                          "ForOfStatement", "ForStatement", "IfStatement",
                          "SwitchStatement", "WhileStatement"}
     \/ isBreakOrContinueToLabel(t, n)
  THEN 1 ELSE 0

\* the nesting increment given to every kind that carries an inherent cost
nestingIncrementForInherent(t, n, depth) ==
  IF depth > 0 /\ inherentCost(t, n) = 1 THEN depth ELSE 0

nestingIncrement(t, n, depth) ==
  IF /\ depth > 0
     /\ KindOf(t, n) \in {"ConditionalExpression", "ForInStatement", "ForOfStatement",
                          "ForStatement", "IfStatement", "SwitchStatement", "WhileStatement"}
  THEN depth ELSE 0

HandledKinds == {"ArrowFunction", "CatchClause", "ConditionalExpression", "DoStatement",
                 "ForInStatement", "ForOfStatement", "ForStatement", "FunctionDeclaration",
                 "FunctionExpression", "IfStatement", "MethodDeclaration", "SwitchStatement",
                 "WhileStatement"}

----
(***************************************************************************)
(* The call stack.  A frame is one calcElemCost(node, depth) activation    *)
(* together with the NodeCost it constructs:                               *)
(*   pc = "children": the loop over node.getChildren(), at child i;        *)
(*   pc = "include":  the handler's include() calls, at call i.            *)
(* score/inner are calcElemCost's locals, cost/costInner the NodeCost's    *)
(* _score and inner.  caller is the depth of the activation that made the  *)
(* call.  The bottom frame is the FileCost.                                *)
(***************************************************************************)
Frame(n, d, callerDepth) ==
  [node |-> n, kind |-> KindOf(prog, n), depth |-> d, caller |-> callerDepth,
   pc |-> "children", i |-> 1,
   score |-> 0, inner |-> <<>>, cost |-> 0, costInner |-> <<>>,
   incl |-> <<>>, err |-> FALSE, handler |-> "", topLevel |-> FALSE]

Top == stack[Len(stack)]
Below == SubSeq(stack, 1, Len(stack) - 1)

Running == status = "running" /\ stack /= <<>>

Init ==
  /\ prog \in Chains
  /\ stack = <<>>
  /\ status = "init"
  /\ ret = <<>>
  /\ fileScore = 0

\* the OutputElem that calcElemCost returns (name, line and column left out)
OutputElem(f) ==
  [node |-> f.node, depth |-> f.depth, score |-> f.score + f.cost,
   inner |-> f.inner \o f.costInner, file |-> f.handler = "FileCost"]

\* what the caller does with the returned elem: `score += elem.score; inner.push(elem)`
\* in calcElemCost's loop, `this.inner.push(elem); this._score += elem.score` in include()
\* include() that records the elem and leaves this._score alone
receiveWithoutScore(f, elem) ==
  IF f.pc = "children"
  THEN [f EXCEPT !.score = @ + elem.score, !.inner = Append(@, elem.score), !.i = @ + 1]
  ELSE [f EXCEPT !.costInner = Append(@, elem.score), !.i = @ + 1]

receive(f, elem) ==
  IF f.pc = "children"
  THEN [f EXCEPT !.score = @ + elem.score, !.inner = Append(@, elem.score), !.i = @ + 1]
  ELSE [f EXCEPT !.cost = @ + elem.score, !.costInner = Append(@, elem.score), !.i = @ + 1]

\* calcElemCost(node, depth) of a node without children and without a handler (a
\* token): the loop is empty and NodeCost includes nothing, so the call is one step
isToken(n) == getChildren(prog, n) = <<>> /\ KindOf(prog, n) \notin HandledKinds

calcElemCostToken(n, d) ==
  [node |-> n, depth |-> d,
   score |-> inherentCost(prog, n) + nestingIncrement(prog, n, d),
   inner |-> <<>>, file |-> FALSE]

\* the call calcElemCost(n, d) made by the top frame
call(n, d) ==
  IF isToken(n)
  THEN /\ stack' = Append(Below, receive(Top, calcElemCostToken(n, d)))
       /\ ret' = <<calcElemCostToken(n, d)>>
  ELSE /\ stack' = Append(stack, Frame(n, d, Top.depth))
       /\ UNCHANGED ret

\* calcFileCost(file): new FileCost(file), whose calculate() includes every child at depth 0
CalcFileCost ==
  /\ status = "init"
  /\ status' = "running"
  /\ stack' = <<[Frame(Root, 0, 0) EXCEPT !.pc = "include", !.handler = "FileCost",
                                         !.incl = FileCost(prog, Root, 0).incl,
                                         !.err = FileCost(prog, Root, 0).err]>>
  /\ UNCHANGED <<prog, ret, fileScore>>

\* calcElemCost, the loop over the children: calcElemCost(child), depth defaulted
defaultDepth(callerDepth) == 0

CallChild ==
  /\ Running
  /\ Top.pc = "children"
  /\ Top.i <= Len(getChildren(prog, Top.node))
  /\ call(getChildren(prog, Top.node)[Top.i], defaultDepth(Top.depth))
  /\ UNCHANGED <<prog, status, fileScore>>

\* new NodeCost(node, depth): the inherent and nesting increments, then the handler
\* that the node's kind selects
NodeCost(h, res, topLevel) ==
  /\ Running
  /\ Top.pc = "children"
  /\ Top.i > Len(getChildren(prog, Top.node))
  /\ stack' = Append(Below,
       [Top EXCEPT !.pc = "include", !.i = 1, !.handler = h,
                   !.cost = inherentCost(prog, Top.node)
                            + nestingIncrement(prog, Top.node, Top.depth),
                   !.incl = res.incl, !.err = res.err, !.topLevel = topLevel])
  /\ UNCHANGED <<prog, status, ret, fileScore>>

\* the value stored in a parameter property
field(b) == IF b THEN "true" ELSE "false"

NodeCostArrowFunction ==
  /\ Running /\ Top.kind = "ArrowFunction"
  /\ NodeCost("ArrowFunctionCost",
              ArrowFunctionCost(prog, Top.node, Top.depth,
                                thisTopLevel(field(isTopLevel(prog, Top.node)))),
              isTopLevel(prog, Top.node))

NodeCostCatchClause ==
  /\ Running /\ Top.kind = "CatchClause"
  /\ NodeCost("CatchClause", CatchClauseCost(prog, Top.node, Top.depth), FALSE)

NodeCostConditionalExpression ==
  /\ Running /\ Top.kind = "ConditionalExpression"
  /\ NodeCost("ConditionalExpressionCost",
              ConditionalExpressionCost(prog, Top.node, Top.depth), FALSE)

NodeCostDoStatement ==
  /\ Running /\ Top.kind = "DoStatement"
  /\ NodeCost("DoStatementCost", DoStatementCost(prog, Top.node, Top.depth), FALSE)

NodeCostForLikeStatement ==
  /\ Running /\ isForLikeStatement(prog, Top.node)
  /\ NodeCost("ForLikeStatementCost", ForLikeStatementCost(prog, Top.node, Top.depth), FALSE)

NodeCostFunctionDeclaration ==
  /\ Running /\ Top.kind = "FunctionDeclaration"
  /\ NodeCost("FunctionDeclarationCost",
              FunctionDeclarationCost(prog, Top.node, Top.depth,
                                      thisTopLevel(field(isTopLevel(prog, Top.node)))),
              isTopLevel(prog, Top.node))

NodeCostFunctionExpression ==
  /\ Running /\ Top.kind = "FunctionExpression"
  /\ NodeCost("FunctionExpressionCost",
              FunctionExpressionCost(prog, Top.node, Top.depth,
                                     thisTopLevel(field(isTopLevel(prog, Top.node)))),
              isTopLevel(prog, Top.node))

NodeCostIfStatement ==
  /\ Running /\ Top.kind = "IfStatement"
  /\ NodeCost("IfStatementCost", IfStatementCost(prog, Top.node, Top.depth), FALSE)

NodeCostMethodDeclaration ==
  /\ Running /\ Top.kind = "MethodDeclaration"
  /\ NodeCost("MethodDeclarationCost",
              MethodDeclarationCost(prog, Top.node, Top.depth,
                                    thisTopLevel(field(isTopLevel(prog, Top.node)))),
              isTopLevel(prog, Top.node))

NodeCostSwitchStatement ==
  /\ Running /\ Top.kind = "SwitchStatement"
  /\ NodeCost("SwitchStatementCost", SwitchStatementCost(prog, Top.node, Top.depth), FALSE)

NodeCostWhileStatement ==
  /\ Running /\ Top.kind = "WhileStatement"
  /\ NodeCost("WhileStatementCost", WhileStatementCost(prog, Top.node, Top.depth), FALSE)

NodeCostOther ==
  /\ Running /\ Top.kind \notin HandledKinds
  /\ NodeCost("", OtherNodeCost(prog, Top.node, Top.depth), FALSE)

\* AbstractNodeCost.include(node, depth): the call calcElemCost(node, depth)
Include ==
  /\ Running
  /\ Top.pc = "include"
  /\ Top.i <= Len(Top.incl)
  /\ call(Top.incl[Top.i].node, Top.incl[Top.i].depth)
  /\ UNCHANGED <<prog, status, fileScore>>

\* an UnexpectedNodeError, or the iterator's error, leaves calcFileCost uncaught
Throw ==
  /\ Running
  /\ Top.pc = "include"
  /\ Top.i > Len(Top.incl)
  /\ Top.err
  /\ status' = "error"
  /\ stack' = <<>>
  /\ UNCHANGED <<prog, ret, fileScore>>

Return ==
  /\ Running
  /\ Top.pc = "include"
  /\ Top.i > Len(Top.incl)
  /\ ~Top.err
  /\ ret' = <<OutputElem(Top)>>
  /\ IF Len(stack) = 1
     THEN /\ stack' = <<>>
          /\ status' = "done"
          /\ fileScore' = OutputElem(Top).score
     ELSE /\ stack' = Append(SubSeq(stack, 1, Len(stack) - 2),
                             receive(stack[Len(stack) - 1], OutputElem(Top)))
          /\ UNCHANGED <<status, fileScore>>
  /\ UNCHANGED prog

Next ==
  \/ CalcFileCost
  \/ CallChild
  \/ NodeCostArrowFunction
  \/ NodeCostCatchClause
  \/ NodeCostConditionalExpression
  \/ NodeCostDoStatement
  \/ NodeCostForLikeStatement
  \/ NodeCostFunctionDeclaration
  \/ NodeCostFunctionExpression
  \/ NodeCostIfStatement
  \/ NodeCostMethodDeclaration
  \/ NodeCostSwitchStatement
  \/ NodeCostWhileStatement
  \/ NodeCostOther
  \/ Include
  \/ Throw
  \/ Return

Spec == Init /\ [][Next]_vars

----
(***************************************************************************)
(* Properties                                                              *)
(***************************************************************************)
RECURSIVE SumSeq(_)
SumSeq(q) == IF q = <<>> THEN 0 ELSE Head(q) + SumSeq(Tail(q))

Frames == {stack[k] : k \in 1..Len(stack)}

\* the frames whose NodeCost has been constructed by the named handler
Handled(h) == {f \in Frames : f.pc = "include" /\ f.handler = h}

KindsOfChildren(n) == [i \in 1..Len(getChildren(prog, n)) |-> KindOf(prog, getChildren(prog, n)[i])]

Calls(f) == {f.incl[j] : j \in 1..Len(f.incl)}

\* C1: scoring the file whose only statement is `if (a) { b; } else { c; }` gives a
\* total file score of exactly 1.
C1_ScenarioAScoresOne ==
  (prog = ScenarioA /\ status = "done") => fileScore = 1

\* C2: every scoring call on a child node receives a depth >= the depth at which its
\* parent was scored: the parent's depth under a node with no special handler, and at
\* most the parent's depth + 1 anywhere.
C2_DepthMonotonic ==
  \A k \in 2..Len(stack) :
    /\ stack[k].depth >= stack[k].caller
    /\ stack[k].depth <= stack[k].caller + 1
    /\ (stack[k - 1].kind \notin HandledKinds /\ stack[k - 1].handler /= "FileCost")
         => stack[k].depth = stack[k].caller

\* C3: an arrow function, function declaration or method scored at depth d has its
\* body scored at depth d when it is top-level and at depth d + 1 when it is not.
C3_FunctionBodyDepth ==
  \A f \in Handled("ArrowFunctionCost") \cup Handled("FunctionDeclarationCost")
           \cup Handled("MethodDeclarationCost") :
    \E i \in 1..Len(getChildren(prog, f.node)) :
      /\ isBlock(prog, getChildren(prog, f.node)[i])
      /\ Call(getChildren(prog, f.node)[i],
              IF isTopLevel(prog, f.node) THEN f.depth ELSE f.depth + 1) \in Calls(f)

FunctionLike == {"ArrowFunction", "FunctionDeclaration", "FunctionExpression",
                 "MethodDeclaration"}

RECURSIVE Enclosing(_)
Enclosing(n) ==
  IF NodeAt(prog, n).enclosing = NoNode THEN {}
  ELSE {NodeAt(prog, n).enclosing} \cup Enclosing(NodeAt(prog, n).enclosing)

OnlyInsideBlocks(n) ==
  \A a \in Enclosing(n) : KindOf(prog, a) \in {"SourceFile", "SyntaxList", "Block", "IfStatement"}

InsideFunction(n) == \E a \in Enclosing(n) : KindOf(prog, a) \in FunctionLike

\* C4: isTopLevel is true of a function that only blocks (such as the block body of a
\* top-level `if`) separate from the source file, and false of every function declared
\* inside the body of another function or method.
C4_TopLevelClassifier ==
  \A f \in {g \in Frames : g.pc = "include" /\ g.kind \in FunctionLike} :
    /\ OnlyInsideBlocks(f.node) => f.topLevel
    /\ InsideFunction(f.node) => ~f.topLevel

WellFormedWhile(n) ==
  /\ Len(KindsOfChildren(n)) = 5
  /\ KindsOfChildren(n)[1] = "WhileKeyword"
  /\ KindsOfChildren(n)[2] = "OpenParenToken"
  /\ KindsOfChildren(n)[4] = "CloseParenToken"

\* C5: on a well-formed while node scored at depth d, WhileStatementCost raises no
\* error and scores the condition at depth d and the body at depth d + 1.
C5_WhileWellFormed ==
  \A f \in Handled("WhileStatementCost") :
    WellFormedWhile(f.node) =>
      /\ ~f.err
      /\ f.incl = <<Call(getChildren(prog, f.node)[3], f.depth),
                    Call(getChildren(prog, f.node)[5], f.depth + 1)>>

IfThenShape(n) ==
  /\ Len(KindsOfChildren(n)) \in {5, 7}
  /\ KindsOfChildren(n)[1] = "IfKeyword"
  /\ KindsOfChildren(n)[2] = "OpenParenToken"
  /\ KindsOfChildren(n)[4] = "CloseParenToken"
  /\ Len(KindsOfChildren(n)) = 7 => KindsOfChildren(n)[6] = "ElseKeyword"

\* C6: IfStatementCost accepts exactly the shapes [if ( cond ) then] and
\* [if ( cond ) then else els]: it scores the condition at depth d and each branch at
\* depth d + 1 without error, and fails on every other child sequence.
C6_IfShapes ==
  \A f \in Handled("IfStatementCost") :
    LET ch == getChildren(prog, f.node) IN
    IF IfThenShape(f.node)
    THEN /\ ~f.err
         /\ f.incl = <<Call(ch[3], f.depth), Call(ch[5], f.depth + 1)>>
                     \o (IF Len(ch) = 7 THEN <<Call(ch[7], f.depth + 1)>> ELSE <<>>)
    ELSE f.err

\* C7: ConditionalExpressionCost scores the condition at depth d, the `then` operand at
\* depth d + 1 and the `else` operand at depth d, dropping none of them.
C7_ConditionalRuns ==
  \A f \in Handled("ConditionalExpressionCost") :
    LET ch == getChildren(prog, f.node) IN
    KindsOfChildren(f.node)[2] = "QuestionToken" /\ KindsOfChildren(f.node)[4] = "ColonToken"
      => f.incl = <<Call(ch[1], f.depth), Call(ch[3], f.depth + 1), Call(ch[5], f.depth)>>

\* C8: FunctionExpressionCost scores every child but the last at depth d and the last
\* child, the body, at depth d + 1.
C8_FunctionExpressionDepths ==
  \A f \in Handled("FunctionExpressionCost") :
    LET ch == getChildren(prog, f.node) IN
    Calls(f) = {Call(ch[i], f.depth) : i \in 1..(Len(ch) - 1)}
               \cup {Call(ch[Len(ch)], f.depth + 1)}

\* the contribution NodeCost added for the frame's own node
LocalOf(f) == f.cost - SumSeq(f.costInner)

NestingKinds == {"ConditionalExpression", "ForInStatement", "ForOfStatement", "ForStatement",
                 "IfStatement", "SwitchStatement", "WhileStatement"}

HasLabel(n) == \E i \in 1..Len(KindsOfChildren(n)) : KindsOfChildren(n)[i] = "Identifier"

\* the local contribution the specification gives a node of this kind at depth d
ClaimedLocal(n, d) ==
  CASE KindOf(prog, n) \in NestingKinds -> 1 + d
    [] KindOf(prog, n) = "CatchClause" -> 1
    [] KindOf(prog, n) \in {"BreakStatement", "ContinueStatement"} ->
         IF HasLabel(n) THEN 1 ELSE 0
    [] OTHER -> 0

\* C9: the local contribution of NodeCost at depth d is 1 + d for a conditional
\* expression, for-in, for-of, for, if, switch or while, exactly 1 for a catch clause
\* and for a labeled break/continue at every depth, and 0 for anything else, an
\* unlabeled break/continue included.
C9_LocalContribution ==
  \A f \in {g \in Frames : g.pc = "include" /\ g.handler /= "FileCost"} :
    LocalOf(f) = ClaimedLocal(f.node, f.depth)

\* a catch clause or a labeled break has been given its contribution at a depth above 0
C9_Witness ==
  \E f \in Frames :
    /\ f.pc = "include" /\ f.depth > 0
    /\ \/ f.kind = "CatchClause"
       \/ f.kind = "BreakStatement" /\ HasLabel(f.node)
    /\ LocalOf(f) = 1

\* C10: every result record's score is the sum of the scores of its inner records plus
\* the local contribution of its own node (0 for the file record), is >= 0, and is
\* never smaller than the score of any inner record.
C10_ScoreIsSumPlusLocal ==
  \A r \in {ret[k] : k \in 1..Len(ret)} :
    /\ r.score = SumSeq(r.inner) + (IF r.file THEN 0 ELSE ClaimedLocal(r.node, r.depth))
    /\ r.score >= 0
    /\ \A j \in 1..Len(r.inner) : r.score >= r.inner[j]

\* an `if` has returned a record made of its own contribution and scoring inner records
C10_Witness ==
  /\ ret /= <<>>
  /\ ~ret[1].file
  /\ KindOf(prog, ret[1].node) = "IfStatement"
  /\ SumSeq(ret[1].inner) > 0
  /\ ret[1].score = SumSeq(ret[1].inner) + 1 + ret[1].depth
====
